---- MODULE Spec2Model ----
(***************************************************************************)
(* Proof-of-Agent verification service: the record store and the           *)
(* verification run of src/src/index.ts, the probe battery and the score   *)
(* of the verifier (src/unnamed/part_003), and the attestation write of    *)
(* src/unnamed/part_004.                                                   *)
(*                                                                         *)
(* The service runs on one JavaScript event loop: a request handler or the *)
(* continuation of an `await` runs to its next `await` without any other   *)
(* handler in between.  One action of this module is one such stretch.     *)
(***************************************************************************)
EXTENDS Integers, Sequences, FiniteSets, TLC

VARIABLES
  verifications,  \* index.ts:14  the Map: id -> reference to a record object
  result,         \* the record objects, one per run (the `result` of a run)
  pc,             \* where each run of runVerification stands
  req,            \* the arguments of each run (capabilities, level, walletAddress)
  vst,            \* one invocation of verifyAgent, probe by probe
  vPrev,          \* the invocation of verifyAgent before this one, in short
  sChecks,        \* an argument of calculateScore
  sOut,           \* what calculateScore returned for it
  rejected,       \* whether a submission has been answered 400
  tPrev,          \* the call of calculateTier before the last one
  tCur,           \* the last call of calculateTier: its argument and its value
  circuit,        \* the CircuitInputs of a proof and the clock at its generation
  proved,         \* what generateStarkProof came to for them
  checked,        \* what verifyStarkProof returned for that proof
  fCall,          \* a call of an operation of M31: its name and its operands
  fOut,           \* what that call returned
  pCall,          \* a call of one probe: its capability, what its requests come to
  pOut,           \* what that call returned, and the path it posted to
  lookup          \* a request of GET /api/score/:agent, and what it was answered

vars ==
  <<verifications, result, pc, req, vst, vPrev, sChecks, sOut, rejected,
    tPrev, tCur, circuit, proved, checked, fCall, fOut, pCall, pOut,
    lookup>>

\* An optional string that is absent (undefined in the source).
None == "none"

\* An optional value of another type: absent, or present.
Absent == <<>>
Some(x) == <<x>>

(***************************************************************************)
(* Bounds of the model.                                                    *)
(***************************************************************************)
\* runs (accepted submissions) in one behaviour
MaxRuns == 2
\* length of a capability list handed to a stepwise verifyAgent invocation
MaxCaps == 2
\* capability checks in a mapping handed to calculateScore
MaxCapChecks == 12

(***************************************************************************)
(* IEEE-754 double arithmetic, as far as calculateScore needs it:          *)
(* (score / maxScore) * 100 and Math.round, for 0 < score < maxScore and   *)
(* maxScore < 2^13.  Numbers of up to 61 bits are written in limbs of 18   *)
(* bits, most significant first; a double is a record [z, limbs] of value  *)
(* (the number the limbs spell) * 2^-(z + 54).                             *)
(***************************************************************************)
LimbBase == 262144

\* zero bits after the binary point of s/m before its first one bit
LeadingZeros(s, m) == CHOOSE z \in 0..13 : s * 2^(z + 1) >= m /\ s * 2^z < m

\* The double nearest to s / m (ties to even): 54 bits of the quotient by
\* long division, the last of them the guard bit, the remainder the sticky bit.
FloatDiv(s, m) ==
  LET z    == LeadingZeros(s, m)
      r0   == s * 2^z
      d1   == (r0 * LimbBase) \div m
      r1   == (r0 * LimbBase) % m
      d2   == (r1 * LimbBase) \div m
      r2   == (r1 * LimbBase) % m
      d3   == (r2 * LimbBase) \div m
      r3   == (r2 * LimbBase) % m
      g    == d3 % 2
      lsb  == (d3 \div 2) % 2
      up   == g = 1 /\ (r3 # 0 \/ lsb = 1)
      e3   == d3 - g + (IF up THEN 2 ELSE 0)
      e2   == d2 + (e3 \div LimbBase)
      e1   == d1 + (e2 \div LimbBase)
  IN  [z |-> z, limbs |-> <<e1, e2 % LimbBase, e3 % LimbBase>>]

\* The double nearest to x * 100 (ties to even), x a result of FloatDiv.
FloatTimes100(x) ==
  LET m3   == x.limbs[3] * 100
      m2   == x.limbs[2] * 100 + (m3 \div LimbBase)
      m1   == x.limbs[1] * 100 + (m2 \div LimbBase)
      p0   == m1 \div LimbBase
      p3   == m3 % LimbBase
      \* the product has 54 + 6 or 54 + 7 bits, of which 53 are kept
      drop == IF p0 >= 64 THEN 8 ELSE 7
      low  == p3 % 2^drop
      half == 2^(drop - 1)
      lsb  == (p3 \div 2^drop) % 2
      up   == low > half \/ (low = half /\ lsb = 1)
      t3   == p3 - low + (IF up THEN 2^drop ELSE 0)
      t2   == (m2 % LimbBase) + (t3 \div LimbBase)
      t1   == (m1 % LimbBase) + (t2 \div LimbBase)
      t0   == p0 + (t1 \div LimbBase)
  IN  [z |-> x.z, limbs |-> <<t0, t1 % LimbBase, t2 % LimbBase, t3 % LimbBase>>]

\* Math.round(y) = floor(y + 0.5), y a result of FloatTimes100: the first limb
\* holds the bits above 2^54, so the binary point lies z bits into it.
MathRound(y) ==
  IF y.z = 0 THEN y.limbs[1] + (y.limbs[2] \div (LimbBase \div 2))
  ELSE (y.limbs[1] \div 2^(y.z)) + ((y.limbs[1] \div 2^(y.z - 1)) % 2)

\* Math.round((score / maxScore) * 100) of part_003:244, 0 <= score <= maxScore.
Normalize(score, maxScore) ==
  IF score = 0 THEN 0
  ELSE IF score = maxScore THEN 100
  ELSE MathRound(FloatTimes100(FloatDiv(score, maxScore)))

(***************************************************************************)
(* The check mapping and the score (part_003:224-250).  The mapping is a   *)
(* sequence of [name, passed] in insertion order, as the keys of the       *)
(* JavaScript object are.  `details` carries messages only and is left out.*)
(***************************************************************************)
Keys(checks) == {checks[i].name : i \in DOMAIN checks}

\* checks[name] = passed
SetCheck(checks, name, passed) ==
  IF name \in Keys(checks)
  THEN [i \in DOMAIN checks |->
          IF checks[i].name = name THEN [name |-> name, passed |-> passed]
          ELSE checks[i]]
  ELSE Append(checks, [name |-> name, passed |-> passed])

\* weights[check] || 10
Weight(check) ==
  CASE check = "liveness"       -> 30
    [] check = "healthEndpoint" -> 10
    [] check = "validJson"      -> 15
    [] check = "consistency"    -> 10
    [] check = "errorHandling"  -> 10
    [] check = "rateLimiting"   -> 5
    [] OTHER                    -> 10

RECURSIVE PassedWeight(_)
\* the loop of lines 237-241
PassedWeight(checks) ==
  IF checks = <<>> THEN 0
  ELSE (IF Head(checks).passed THEN Weight(Head(checks).name) ELSE 0)
       + PassedWeight(Tail(checks))

RECURSIVE MaxWeight(_)
\* the reduce of line 243
MaxWeight(checks) ==
  IF checks = <<>> THEN 0
  ELSE Weight(Head(checks).name) + MaxWeight(Tail(checks))

\* (calculateScoreByCount: the variant that divides the `passed` of line 226
\* by the `total` of line 225.)
calculateScoreByCount(checks) ==
  [score  |-> Normalize(Len(SelectSeq(checks, LAMBDA e : e.passed)), Len(checks)),
   checks |-> checks]
calculateScore(checks) ==
  [score  |-> Normalize(PassedWeight(checks), MaxWeight(checks)),
   checks |-> checks]

(***************************************************************************)
(* verifyAgent (part_003:17-77), one probe at a time.  An invocation is a  *)
(* record: pc is the probe awaited (or "returned" / "threw"), i the index  *)
(* of the capability under test, issued the probes started so far, out the *)
(* value returned.                                                         *)
(***************************************************************************)
\* The `capabilities` of a request body: an array of names, or a value that
\* is no array (a number, an object), on which `for (const cap of capabilities)`
\* throws a TypeError.
List(items) == [iterable |-> TRUE, items |-> items]
NotIterable == [iterable |-> FALSE, items |-> <<>>]

\* The `endpoint` of a request body is any JSON value that is not falsy.  A
\* value that is no string has no `replace` method, so that checkHealth throws
\* at its line 98, before its try; whether the GET of checkLiveness succeeds
\* on such a value is up to the HTTP client.
NotAString == "<not a string>"

IsString(endpoint) == endpoint # NotAString

(***************************************************************************)
(* The seven probes (part_003:79-223).  What one HTTP request of a probe   *)
(* comes to is an outcome: a transport failure (timeout, connection        *)
(* refused, another exception of the client) or a response with its        *)
(* status, the kind of its `data` and whether it carries one of the rate   *)
(* limit headers.  A probe returns [threw, success].                       *)
(***************************************************************************)
Failure(cause) ==
  [failed |-> TRUE, cause |-> cause, status |-> 0, data |-> "null", limited |-> FALSE]

Response(status, data, limited) ==
  [failed |-> FALSE, cause |-> "none", status |-> status, data |-> data,
   limited |-> limited]

Causes == {"timeout", "refused", "exception"}

Statuses == {200, 404, 429}

\* response.data: an object with one of the expected fields of the
\* capability, an object with an `error` key, the object {}, null, a string
\* that is JSON, a string that is not, a number
DataKinds == {"expected", "error", "empty", "null", "json", "text", "number"}

\* typeof data === 'object'
IsObject(data) == data \in {"expected", "error", "empty", "null"}

\* Object.keys(data || {}), sorted: the characters of a string have indices
DataKeys(data) ==
  CASE data = "expected" -> <<"result">>
    [] data = "error"    -> <<"error">>
    [] data = "json"     -> <<"0", "1">>
    [] data = "text"     -> <<"0">>
    [] OTHER             -> <<>>

\* A request of the HTTP client rejects on a transport failure and, unless
\* the call passes validateStatus: () => true, on a status outside 2xx.
Rejects(o, anyStatus) ==
  o.failed \/ (~anyStatus /\ (o.status < 200 \/ o.status >= 300))

Threw == [threw |-> TRUE, success |-> FALSE]

Returned(success) == [threw |-> FALSE, success |-> success]

\* lines 79-94
\* (checkLivenessWithoutCatch: the variant without the catch of lines 87-93.)
checkLivenessWithoutCatch(endpoint, os) ==
  IF Rejects(os[1], FALSE) THEN Threw
  ELSE Returned(os[1].status >= 200 /\ os[1].status < 400)
checkLiveness(endpoint, os) ==
  IF Rejects(os[1], FALSE) THEN Returned(FALSE)
  ELSE Returned(os[1].status >= 200 /\ os[1].status < 400)

\* lines 96-111: the paths are tried in turn; os[i] is what the request
\* for the i-th path comes to
HealthPaths == <<"/health", "/api/health", "/_health", "/status">>

checkHealth(endpoint, os) ==
  IF ~IsString(endpoint) THEN Threw
  ELSE Returned(\E i \in DOMAIN HealthPaths :
                  ~Rejects(os[i], FALSE) /\ os[i].status = 200)

\* lines 112-128: JSON.parse of a string that is not JSON throws into the catch
checkResponseFormat(endpoint, os) ==
  IF Rejects(os[1], FALSE) THEN Returned(FALSE)
  ELSE IF IsObject(os[1].data) THEN Returned(TRUE)
  ELSE IF os[1].data \in {"json", "text"} THEN Returned(os[1].data = "json")
  ELSE Returned(FALSE)

\* lines 131-157: testPrompts[capability] || the generic test.  testPrompts
\* is an object literal, so the names every object inherits (constructor,
\* toString, ...) are found in it too: their value is truthy and has no
\* path and no expectedFields.
testPrompts(capability) ==
  CASE capability \in {"trading", "analysis"} -> [path |-> "/analyze", fields |-> TRUE]
    [] capability = "social" -> [path |-> "/generate", fields |-> TRUE]
    [] capability = "defi" -> [path |-> "/quote", fields |-> TRUE]
    [] capability \in {"constructor", "toString"} ->
         [path |-> "undefined", fields |-> FALSE]
    [] OTHER -> [path |-> "/test", fields |-> TRUE]

\* lines 129-173: `field in response.data` throws into the catch when the
\* data is null, and so does expectedFields.some when there are no
\* expectedFields.  The data "expected" has one of the expectedFields.
testCapability(endpoint, capability, os) ==
  IF ~IsString(endpoint) THEN Threw
  ELSE IF Rejects(os[1], TRUE) THEN Returned(FALSE)
  ELSE IF ~IsObject(os[1].data) THEN Returned(FALSE)
  ELSE IF ~testPrompts(capability).fields THEN Returned(FALSE)
  ELSE IF os[1].data = "null" THEN Returned(FALSE)
  ELSE Returned(os[1].data = "expected" \/ os[1].status = 200)

\* lines 176-191: Promise.all rejects when one of the two requests does
checkConsistency(endpoint, os) ==
  IF Rejects(os[1], FALSE) \/ Rejects(os[2], FALSE) THEN Returned(FALSE)
  ELSE Returned(DataKeys(os[1].data) = DataKeys(os[2].data))

\* lines 192-207: `'error' in response.data` throws into the catch when the
\* data is null
checkErrorHandling(endpoint, os) ==
  IF ~IsString(endpoint) THEN Threw
  ELSE IF Rejects(os[1], TRUE) THEN Returned(FALSE)
  ELSE IF os[1].status >= 400 /\ os[1].status < 600
       THEN IF ~IsObject(os[1].data) THEN Returned(FALSE)
            ELSE IF os[1].data = "null" THEN Returned(FALSE)
            ELSE Returned(os[1].data = "error")
       ELSE Returned(FALSE)

\* lines 208-223: five requests at once; Promise.all rejects when one does
RapidRequests == 5

checkRateLimiting(endpoint, os) ==
  IF \E i \in 1..RapidRequests : Rejects(os[i], TRUE) THEN Returned(FALSE)
  ELSE Returned(\/ \E i \in 1..RapidRequests : os[i].status = 429
                \/ \E i \in 1..RapidRequests : os[i].limited)

CapKey(cap) == "capability_" \o cap

Issue(st, probe) == [st EXCEPT !.pc = probe, !.issued = Append(@, probe)]

Return(st, value) == [st EXCEPT !.pc = "returned", !.out = Some(value)]

\* lines 17-21: the call, up to the first await
Invoke(endpoint, caps, level) ==
  [pc |-> "liveness", endpoint |-> endpoint, level |-> level, caps |-> caps, i |-> 0,
   checks |-> <<>>, issued |-> <<"liveness">>, out |-> Absent,
   transport |-> "none"]

\* the check the awaited probe reports on
CurrentCheck(st) ==
  IF st.pc = "capability" THEN CapKey(st.caps.items[st.i]) ELSE st.pc

\* lines 22-30
\* (AfterLivenessNoShortCircuit: the variant without the return of line 27.)
AfterLivenessNoShortCircuit(st, ok) == Issue(st, "healthEndpoint")
AfterLiveness(st, ok) ==
  IF ~ok THEN Return(st, [score |-> 0, checks |-> st.checks])
  ELSE IF ~IsString(st.endpoint) THEN [st EXCEPT !.pc = "threw"]
  ELSE Issue(st, "healthEndpoint")

\* lines 46-59: the head of the capability loop at index i, and what follows it
\* (CapabilityLoopNoStandardStop: the variant without the return of line 55.)
CapabilityLoopNoStandardStop(st, i) ==
  IF i <= Len(st.caps.items)
  THEN [st EXCEPT !.pc = "capability", !.i = i,
                  !.issued = Append(@, CapKey(st.caps.items[i]))]
  ELSE Issue(st, "consistency")
CapabilityLoop(st, i) ==
  IF i <= Len(st.caps.items)
  THEN [st EXCEPT !.pc = "capability", !.i = i,
                  !.issued = Append(@, CapKey(st.caps.items[i]))]
  ELSE IF st.level = "standard" THEN Return(st, calculateScore(st.checks))
  ELSE Issue(st, "consistency")

\* lines 37-46
\* (AfterFormatStopsUnknownLevels: the variant that goes on for the names
\* standard and comprehensive only.)
AfterFormatStopsUnknownLevels(st) ==
  IF st.level \notin {"standard", "comprehensive"}
  THEN Return(st, calculateScore(st.checks))
  ELSE IF ~st.caps.iterable THEN [st EXCEPT !.pc = "threw"]
  ELSE CapabilityLoop(st, 1)
AfterFormat(st) ==
  IF st.level = "basic" THEN Return(st, calculateScore(st.checks))
  ELSE IF ~st.caps.iterable THEN [st EXCEPT !.pc = "threw"]
  ELSE CapabilityLoop(st, 1)

\* The continuation of verifyAgent once the awaited probe resolved with
\* success = ok.
ProbeStep(st, ok) ==
  LET c == [st EXCEPT !.checks = SetCheck(@, CurrentCheck(st), ok)]
  IN  CASE st.pc = "liveness"       -> AfterLiveness(c, ok)
        [] st.pc = "healthEndpoint" -> Issue(c, "validJson")
        [] st.pc = "validJson"      -> AfterFormat(c)
        [] st.pc = "capability"     -> CapabilityLoop(c, st.i + 1)
        [] st.pc = "consistency"    -> Issue(c, "errorHandling")
        [] st.pc = "errorHandling"  -> Issue(c, "rateLimiting")
        [] st.pc = "rateLimiting"   -> Return(c, calculateScore(c.checks))

Settled(st) == st.pc \in {"returned", "threw"}

(***************************************************************************)
(* The record store and the run (index.ts:196-323).                        *)
(***************************************************************************)
Runs == 1..MaxRuns

\* Line 204 builds an id from the clock and six random digits; ids are
\* numbered here.
Ids == 1..MaxRuns

Terminal == {"verified", "failed"}

\* Request bodies of POST /api/verify.
AgentNames   == {None, "alpha"}
ApiEndpoints == {None, "http://agent"}
Capabilities == {Some(List(<<"trading">>)), Some(NotIterable)}
TestLevels   == {None, "standard"}
Wallets      == {None, "wallet"}

\* What the agent behind an endpoint answers during one run: the success of
\* each probe of the battery.
Probes == {"liveness", "healthEndpoint", "validJson", "capability",
           "consistency", "errorHandling", "rateLimiting"}
Dead     == [p \in Probes |-> FALSE]
Bare     == [p \in Probes |-> p = "liveness"]
Complete == [p \in Probes |-> TRUE]
Behaviours == {Dead, Bare, Complete}

RECURSIVE RunBattery(_, _)
\* verifyAgent from the call to its return or throw, against behaviour b
RunBattery(st, b) ==
  IF Settled(st) THEN st ELSE RunBattery(ProbeStep(st, b[st.pc]), b)

\* lines 206-213
NewRecord(id, agentName) ==
  [id |-> id, agentName |-> agentName, status |-> "pending", score |-> 0,
   checks |-> <<>>, attestationTx |-> None, completedAt |-> Absent]

\* line 290
\* (StartRunKeepsPending, StartRunMarksFailed: variants writing another status.)
StartRunKeepsPending(rec) == rec
StartRunMarksFailed(rec) == [rec EXCEPT !.status = "failed"]
StartRun(rec) == [rec EXCEPT !.status = "testing"]

\* lines 296-299
\* (FinishStatusFirst: the variant that writes the status alone;
\* FinishWithoutChecks: the one that leaves the checks out;
\* FinishLeavesStatus: the one that does not write the status;
\* FinishThresholdFifty: the one with the threshold at 50.)
FinishStatusFirst(rec, verification, now) ==
  [rec EXCEPT !.status = IF verification.score >= 60 THEN "verified" ELSE "failed"]
FinishWithoutChecks(rec, verification, now) ==
  [rec EXCEPT !.score = verification.score,
              !.status = IF verification.score >= 60 THEN "verified" ELSE "failed",
              !.completedAt = Some(now)]
FinishLeavesStatus(rec, verification, now) ==
  [rec EXCEPT !.score = verification.score,
              !.checks = verification.checks,
              !.completedAt = Some(now)]
FinishThresholdFifty(rec, verification, now) ==
  [rec EXCEPT !.score = verification.score,
              !.checks = verification.checks,
              !.status = IF verification.score >= 50 THEN "verified" ELSE "failed",
              !.completedAt = Some(now)]
Finish(rec, verification, now) ==
  [rec EXCEPT !.score = verification.score,
              !.checks = verification.checks,
              !.status = IF verification.score >= 60 THEN "verified" ELSE "failed",
              !.completedAt = Some(now)]

\* lines 317-319
\* (FailKeepsChecks: the variant that leaves the checks as they are.)
FailKeepsChecks(rec, now) ==
  [rec EXCEPT !.status = "failed", !.completedAt = Some(now)]
Fail(rec, now) ==
  [rec EXCEPT !.status = "failed",
              !.checks = <<[name |-> "error", passed |-> FALSE]>>,
              !.completedAt = Some(now)]

\* The clock (new Date()) never runs backwards: a reading is the latest
\* timestamp already written, or later.
Stamps == {result[r].completedAt[1] : r \in {q \in Runs : result[q].completedAt # Absent}}
Latest == IF Stamps = {} THEN 0 ELSE CHOOSE t \in Stamps : \A u \in Stamps : u <= t
Clock == {Latest, Latest + 1} \ {0}

\* verifications.set(id, result)
StoreSet(store, id, r) == [i \in DOMAIN store \cup {id} |-> IF i = id THEN r ELSE store[i]]

Owner(id) == verifications[id]

lifecycleVars == <<verifications, result, pc, req, rejected>>
batteryVars == <<vst, vPrev>>
scoreVars == <<sChecks, sOut>>
tierVars == <<tPrev, tCur>>
proofVars == <<circuit, proved, checked>>
fieldVars == <<fCall, fOut>>
probeVars == <<pCall, pOut>>
\* no request of GET /api/score/:agent
NoLookup == [agent |-> None, out |-> Absent]

libraryVars == <<tierVars, proofVars, fieldVars, probeVars, lookup>>

\* line 200: agentName and apiEndpoint are there (None: absent or falsy)
\* (ValidWithoutEndpoint: the variant that asks for the name alone.)
ValidWithoutEndpoint(body) == body.agentName # None
Valid(body) == body.agentName # None /\ body.apiEndpoint # None

\* line 218, testLevel || 'basic': the level runVerification is called with
LevelArgument(testLevel) == IF testLevel = None THEN "basic" ELSE testLevel

\* POST /api/verify, lines 196-226, with the part of runVerification that
\* runs before its first await (lines 289-294 and the call of checkLiveness).
Submit(id, body) ==
  /\ Valid(body)
  /\ \E r \in Runs :
       /\ pc[r] = "idle"
       /\ \A q \in Runs : q < r => pc[q] # "idle"
       /\ result' = [result EXCEPT ![r] = StartRun(NewRecord(id, body.agentName))]
       /\ verifications' = StoreSet(verifications, id, r)
       /\ req' = [req EXCEPT ![r] =
            [endpoint      |-> body.apiEndpoint,
             capabilities  |-> IF body.capabilities = Absent THEN List(<<>>)
                               ELSE body.capabilities[1],
             level         |-> LevelArgument(body.testLevel),
             walletAddress |-> body.walletAddress]]
       /\ pc' = [pc EXCEPT ![r] = "battery"]
  /\ UNCHANGED <<rejected, batteryVars, scoreVars, libraryVars>>

\* lines 199-202: the request is answered 400 and nothing else happens
Reject(body) ==
  /\ ~Valid(body)
  /\ rejected' = TRUE
  /\ UNCHANGED <<verifications, result, pc, req, batteryVars, scoreVars, libraryVars>>

\* GET /api/status/:id, lines 229-237: what the handler answers in this state.
\* res.json(result) serialises the record as it is when the handler runs.
StatusResponse(id) ==
  IF id \in DOMAIN verifications
  THEN [code |-> 200, body |-> result[Owner(id)]]
  ELSE [code |-> 404, body |-> NewRecord(0, None)]

\* The handler reads the store and writes nothing.
StatusQuery(id) == UNCHANGED vars

\* line 302: whether the attestation is written
\* (ShouldAttestAnyStatus: the variant that does not look at the status.)
ShouldAttestAnyStatus(rec, walletAddress) == walletAddress # None
ShouldAttest(rec, walletAddress) ==
  rec.status = "verified" /\ walletAddress # None

\* runVerification from the return of verifyAgent (line 294) to its next
\* await or its end: lines 296-309 and 315.  createAttestation (part_004:19-66)
\* throws before it awaits when the payer key is not configured, otherwise
\* the run waits for the transaction.
BatteryReturns(r) ==
  /\ pc[r] = "battery"
  /\ \E b \in Behaviours, now \in Clock, payer \in BOOLEAN :
       LET inv == RunBattery(Invoke(req[r].endpoint, req[r].capabilities, req[r].level), b)
           rec == Finish(result[r], inv.out[1], now)
       IN  /\ inv.pc = "returned"
           /\ result' = [result EXCEPT ![r] = rec]
           /\ IF ShouldAttest(rec, req[r].walletAddress)
              THEN IF payer
                   THEN /\ pc' = [pc EXCEPT ![r] = "attest"]
                        /\ UNCHANGED verifications
                   ELSE /\ pc' = [pc EXCEPT ![r] = "attestFailed"]
                        /\ verifications' = StoreSet(verifications, rec.id, r)
              ELSE /\ pc' = [pc EXCEPT ![r] = "done"]
                   /\ verifications' = StoreSet(verifications, rec.id, r)
  /\ UNCHANGED <<req, rejected, batteryVars, scoreVars, libraryVars>>

\* verifyAgent threw: the catch of lines 316-322
\* (BatteryThrowsFailsEveryRun: the variant whose catch fails every record
\* under test.)
BatteryThrowsFailsEveryRun(r) ==
  /\ pc[r] = "battery"
  /\ \E b \in Behaviours, now \in Clock :
       /\ RunBattery(Invoke(req[r].endpoint, req[r].capabilities, req[r].level), b).pc = "threw"
       /\ result' = [q \in Runs |-> IF pc[q] = "battery" THEN Fail(result[q], now)
                                    ELSE result[q]]
       /\ verifications' = StoreSet(verifications, result[r].id, r)
  /\ pc' = [pc EXCEPT ![r] = "threw"]
  /\ UNCHANGED <<req, rejected, batteryVars, scoreVars, libraryVars>>
BatteryThrows(r) ==
  /\ pc[r] = "battery"
  /\ \E b \in Behaviours, now \in Clock :
       /\ RunBattery(Invoke(req[r].endpoint, req[r].capabilities, req[r].level), b).pc = "threw"
       /\ result' = [result EXCEPT ![r] = Fail(result[r], now)]
       /\ verifications' = StoreSet(verifications, result[r].id, r)
  /\ pc' = [pc EXCEPT ![r] = "threw"]
  /\ UNCHANGED <<req, rejected, batteryVars, scoreVars, libraryVars>>

\* createAttestation returned: lines 309 and 315
\* (AttestationResolvesResetsScore: the variant that also rewrites the score;
\* AttestationResolvesRestamps: the one that also rewrites completedAt.)
AttestationResolvesRestamps(r) ==
  /\ pc[r] = "attest"
  /\ result' = [result EXCEPT ![r].attestationTx = "signature",
                              ![r].completedAt = Some(Latest + 1)]
  /\ verifications' = StoreSet(verifications, result[r].id, r)
  /\ pc' = [pc EXCEPT ![r] = "attested"]
  /\ UNCHANGED <<req, rejected, batteryVars, scoreVars, libraryVars>>
AttestationResolvesResetsScore(r) ==
  /\ pc[r] = "attest"
  /\ result' = [result EXCEPT ![r].attestationTx = "signature", ![r].score = 0]
  /\ verifications' = StoreSet(verifications, result[r].id, r)
  /\ pc' = [pc EXCEPT ![r] = "attested"]
  /\ UNCHANGED <<req, rejected, batteryVars, scoreVars, libraryVars>>
AttestationResolves(r) ==
  /\ pc[r] = "attest"
  /\ result' = [result EXCEPT ![r].attestationTx = "signature"]
  /\ verifications' = StoreSet(verifications, result[r].id, r)
  /\ pc' = [pc EXCEPT ![r] = "attested"]
  /\ UNCHANGED <<req, rejected, batteryVars, scoreVars, libraryVars>>

\* createAttestation threw after its await: lines 310-312 and 315
\* (AttestationRejectsIntoOuterCatch: the variant in which the throw reaches
\* the catch of lines 316-322.)
AttestationRejectsIntoOuterCatch(r) ==
  /\ pc[r] = "attest"
  /\ \E now \in Clock : result' = [result EXCEPT ![r] = Fail(result[r], now)]
  /\ verifications' = StoreSet(verifications, result[r].id, r)
  /\ pc' = [pc EXCEPT ![r] = "attestFailed"]
  /\ UNCHANGED <<req, rejected, batteryVars, scoreVars, libraryVars>>
AttestationRejects(r) ==
  /\ pc[r] = "attest"
  /\ UNCHANGED result
  /\ verifications' = StoreSet(verifications, result[r].id, r)
  /\ pc' = [pc EXCEPT ![r] = "attestFailed"]
  /\ UNCHANGED <<req, rejected, batteryVars, scoreVars, libraryVars>>

\* The bodies submitted: every valid body, and of the bodies that miss a
\* required field (whose other fields are never read) those without testLevel
\* and walletAddress.
Bodies ==
  {body \in [agentName : AgentNames, apiEndpoint : ApiEndpoints,
             capabilities : Capabilities, testLevel : TestLevels,
             walletAddress : Wallets] :
     (body.agentName # None /\ body.apiEndpoint # None)
       \/ (body.testLevel = None /\ body.walletAddress = None)}

\* an id no stored record has
FreshId == Cardinality(DOMAIN verifications) + 1

NoRequest == [endpoint |-> None, capabilities |-> List(<<>>), level |-> "basic", walletAddress |-> None]

\* no invocation
Idle == [pc |-> "idle", endpoint |-> None, level |-> "basic", caps |-> List(<<>>), i |-> 0,
         checks |-> <<>>, issued |-> <<>>, out |-> Absent, transport |-> "none"]

\* an invocation in short: its level, the probes it started, how it ended,
\* and whether its liveness probe succeeded
Summary(st) ==
  [level |-> st.level, issued |-> st.issued, pc |-> st.pc,
   live |-> st.checks # <<>> /\ st.checks[1].passed]

InitBattery == vst = Idle /\ vPrev = Summary(Idle)
InitScore == sChecks = <<>> /\ sOut = Absent
NoCircuit ==
  [inputs |-> [score |-> [int |-> 0, frac |-> 0],
               threshold |-> [int |-> 0, frac |-> 0],
               timestamp |-> [int |-> 0, frac |-> 0], agentIdHash |-> 0],
   clock |-> [seconds |-> 0, millis |-> 0]]
InitLibrary ==
  /\ tPrev = Absent /\ tCur = Absent
  /\ circuit = NoCircuit /\ proved = Absent /\ checked = Absent
  /\ fCall = [op |-> "none", a |-> 0, b |-> 0] /\ fOut = Absent
  /\ pCall = [probe |-> "none", capability |-> None, os |-> <<>>]
  /\ pOut = Absent
  /\ lookup = NoLookup

Init ==
  /\ verifications = <<>>
  /\ result = [r \in Runs |-> NewRecord(0, None)]
  /\ pc = [r \in Runs |-> "idle"]
  /\ req = [r \in Runs |-> NoRequest]
  /\ rejected = FALSE
  /\ InitBattery
  /\ InitScore
  /\ InitLibrary

Next ==
  \/ \E body \in Bodies : Submit(FreshId, body)
  \/ \E body \in Bodies : Reject(body)
  \/ \E id \in Ids : StatusQuery(id)
  \/ \E r \in Runs : BatteryReturns(r)
  \/ \E r \in Runs : BatteryThrows(r)
  \/ \E r \in Runs : AttestationResolves(r)
  \/ \E r \in Runs : AttestationRejects(r)

Spec == Init /\ [][Next]_vars

(***************************************************************************)
(* Progress.  Every request of a probe carries a timeout (part_003:82-211) *)
(* and the capability loop runs over a finite array, so the await of       *)
(* verifyAgent is over at some time and the continuation of runVerification*)
(* runs: the step that ends the battery of a run is taken if it stays      *)
(* enabled.  Nothing is assumed of the attestation write, which waits for  *)
(* the confirmation of a transaction without a timeout (part_004:62-66).   *)
(***************************************************************************)
BatteryEnds(r) == BatteryReturns(r) \/ BatteryThrows(r)

Fairness == \A r \in Runs : WF_vars(BatteryEnds(r))

SpecLive == Init /\ [][Next]_vars /\ Fairness

(***************************************************************************)
(* The same service with the id of line 204 as the code builds it: the     *)
(* millisecond of the submission and up to six base-36 digits of           *)
(* Math.random().  Nothing keeps two submissions from getting the same id, *)
(* so the id of a submission is any id.                                    *)
(***************************************************************************)
NextOfStore ==
  \/ \E id \in Ids, body \in Bodies : Submit(id, body)
  \/ \E body \in Bodies : Reject(body)
  \/ \E id \in Ids : StatusQuery(id)
  \/ \E r \in Runs : BatteryReturns(r)
  \/ \E r \in Runs : BatteryThrows(r)
  \/ \E r \in Runs : AttestationResolves(r)
  \/ \E r \in Runs : AttestationRejects(r)

SpecStore == Init /\ [][NextOfStore]_vars

(***************************************************************************)
(* verifyAgent alone, probe by probe: one request (a capability list) is   *)
(* verified at one level after another, every probe succeeding or failing. *)
(***************************************************************************)
CapNames == {"trading", "custom"}

RECURSIVE SeqsUpTo(_, _)
\* the sequences over S of length at most n
SeqsUpTo(S, n) ==
  IF n = 0 THEN {<<>>}
  ELSE LET shorter == SeqsUpTo(S, n - 1)
       IN  shorter \cup {Append(q, x) : q \in shorter, x \in S}

Endpoints == {"http://agent", NotAString}

CapLists == {List(q) : q \in SeqsUpTo(CapNames, MaxCaps)} \cup {NotIterable}

\* the level argument: the three names, and "deep" for any other string
Levels == {"basic", "standard", "comprehensive", "deep"}

\* What the requests of one probe call come to: one outcome for each request.
Singles ==
  {Failure(cause) : cause \in Causes}
    \cup {Response(status, data, limited) :
            status \in Statuses, data \in DataKinds, limited \in BOOLEAN}

HealthOutcomes ==
  [DOMAIN HealthPaths ->
     {Failure("timeout"), Response(200, "empty", FALSE), Response(404, "error", FALSE)}]

PairOutcomes ==
  [1..2 -> {Failure("refused")} \cup {Response(200, data, FALSE) : data \in DataKinds}]

RapidOutcomes ==
  [1..RapidRequests ->
     {Failure("exception"), Response(200, "empty", FALSE),
      Response(429, "error", FALSE)}]

OutcomesOf(probe) ==
  CASE probe = "healthEndpoint" -> HealthOutcomes
    [] probe = "consistency"    -> PairOutcomes
    [] probe = "rateLimiting"   -> RapidOutcomes
    [] OTHER                    -> {<<o>> : o \in Singles}

\* the requests a probe sends: checkHealth stops at the first status 200
Sent(probe, os) ==
  IF probe = "healthEndpoint"
  THEN {i \in DOMAIN os :
          \A j \in 1..(i - 1) : Rejects(os[j], FALSE) \/ os[j].status # 200}
  ELSE DOMAIN os

\* how many of the requests sent ended in a transport failure
Transport(probe, os) ==
  IF \A i \in Sent(probe, os) : os[i].failed THEN "all"
  ELSE IF \E i \in Sent(probe, os) : os[i].failed THEN "some"
  ELSE "none"

\* the probe verifyAgent awaits, called on the outcomes of its requests
Call(st, os) ==
  CASE st.pc = "liveness"       -> checkLiveness(st.endpoint, os)
    [] st.pc = "healthEndpoint" -> checkHealth(st.endpoint, os)
    [] st.pc = "validJson"      -> checkResponseFormat(st.endpoint, os)
    [] st.pc = "capability"     -> testCapability(st.endpoint, st.caps.items[st.i], os)
    [] st.pc = "consistency"    -> checkConsistency(st.endpoint, os)
    [] st.pc = "errorHandling"  -> checkErrorHandling(st.endpoint, os)
    [] st.pc = "rateLimiting"   -> checkRateLimiting(st.endpoint, os)

\* the awaited probe resolves, or throws into verifyAgent, which has no catch
ProbeResolves ==
  /\ vst.pc # "idle" /\ ~Settled(vst)
  /\ \E os \in OutcomesOf(vst.pc) :
       LET res == Call(vst, os)
           next == IF res.threw THEN [vst EXCEPT !.pc = "threw"]
                   ELSE ProbeStep(vst, res.success)
       IN  vst' = [next EXCEPT !.transport = Transport(vst.pc, os)]
  /\ UNCHANGED <<lifecycleVars, vPrev, scoreVars, libraryVars>>

\* the same request is verified again, at some level
InvokeAgain(level) ==
  /\ Settled(vst)
  /\ vPrev' = Summary(vst)
  /\ vst' = Invoke(vst.endpoint, vst.caps, level)
  /\ UNCHANGED <<lifecycleVars, scoreVars, libraryVars>>

InitOfBattery ==
  /\ verifications = <<>>
  /\ result = [r \in Runs |-> NewRecord(0, None)]
  /\ pc = [r \in Runs |-> "idle"]
  /\ req = [r \in Runs |-> NoRequest]
  /\ rejected = FALSE
  /\ \E endpoint \in Endpoints, caps \in CapLists, level \in Levels :
       vst = Invoke(endpoint, caps, level)
  /\ vPrev = Summary(Idle)
  /\ InitScore
  /\ InitLibrary

NextOfBattery ==
  \/ ProbeResolves
  \/ \E level \in Levels : InvokeAgain(level)

SpecBattery == InitOfBattery /\ [][NextOfBattery]_vars

(***************************************************************************)
(* One probe on its own: a capability probe for any capability name, or    *)
(* the rate-limiting probe, called on what its requests come to.           *)
(***************************************************************************)
ProbeCall ==
  /\ pOut = Absent
  /\ pOut' = Some(
       IF pCall.probe = "capability"
       THEN [res |-> testCapability("http://agent", pCall.capability, pCall.os),
             path |-> testPrompts(pCall.capability).path]
       ELSE [res |-> checkRateLimiting("http://agent", pCall.os), path |-> ""])
  /\ UNCHANGED <<lifecycleVars, batteryVars, scoreVars, tierVars, proofVars,
                 fieldVars, pCall, lookup>>

InitOfProbe ==
  /\ verifications = <<>>
  /\ result = [r \in Runs |-> NewRecord(0, None)]
  /\ pc = [r \in Runs |-> "idle"]
  /\ req = [r \in Runs |-> NoRequest]
  /\ rejected = FALSE
  /\ InitBattery
  /\ InitScore
  /\ tPrev = Absent /\ tCur = Absent
  /\ circuit = NoCircuit /\ proved = Absent /\ checked = Absent
  /\ fCall = [op |-> "none", a |-> 0, b |-> 0] /\ fOut = Absent
  /\ \/ \E capability \in {"trading", "analysis", "social", "defi", "custom",
                           "constructor"}, o \in Singles :
          pCall = [probe |-> "capability", capability |-> capability, os |-> <<o>>]
     \/ \E os \in [1..RapidRequests ->
                     {Failure("timeout"), Response(200, "empty", FALSE),
                      Response(200, "empty", TRUE), Response(429, "error", FALSE)}] :
          pCall = [probe |-> "rateLimiting", capability |-> None, os |-> os]
  /\ pOut = Absent
  /\ lookup = NoLookup

SpecProbe == InitOfProbe /\ [][ProbeCall]_vars

(***************************************************************************)
(* GET /api/score/:agent (index.ts:240-264), asked of a store of records   *)
(* that runs have left under test or finished.                             *)
(***************************************************************************)
\* String.prototype.toLowerCase, on the names used here
toLowerCase(name) ==
  CASE name = "Alpha" -> "alpha"
    [] name = "ALPHA" -> "alpha"
    [] OTHER -> name

RECURSIVE ScanVerifications(_, _)
\* lines 246-252: the loop over verifications.values(), in insertion order,
\* from the record numbered scan.next on; the loop throws a TypeError on a
\* record whose agentName has no toLowerCase
ScanVerifications(agent, scan) ==
  IF scan.threw \/ scan.next \notin DOMAIN verifications THEN scan
  ELSE LET v == result[Owner(scan.next)]
       IN  IF ~IsString(v.agentName)
           THEN [scan EXCEPT !.threw = TRUE]
           ELSE ScanVerifications(agent,
                  [scan EXCEPT !.next = @ + 1,
                     !.latest =
                       IF /\ toLowerCase(v.agentName) = agent
                          /\ v.status = "verified"
                          /\ \/ scan.latest = Absent
                             \/ v.completedAt[1] > scan.latest[1].completedAt[1]
                       THEN Some(v) ELSE @])

\* lines 240-264: what the handler answers in this state; an exception of
\* the handler is answered 500 by the framework
ScoreResponse(agent) ==
  LET scan == ScanVerifications(toLowerCase(agent),
                [next |-> 1, latest |-> Absent, threw |-> FALSE])
      none == [agent |-> None, score |-> 0, verifiedAt |-> Absent,
               attestationTx |-> None]
  IN  IF scan.threw THEN [code |-> 500, body |-> none]
      ELSE IF scan.latest = Absent THEN [code |-> 404, body |-> none]
      ELSE [code |-> 200,
            body |-> [agent         |-> scan.latest[1].agentName,
                      score         |-> scan.latest[1].score,
                      verifiedAt    |-> scan.latest[1].completedAt,
                      attestationTx |-> scan.latest[1].attestationTx]]

\* The handler reads the store and writes nothing; its answer is kept.
ScoreLookup(agent) ==
  /\ lookup.out = Absent
  /\ lookup' = [agent |-> agent, out |-> Some(ScoreResponse(agent))]
  /\ UNCHANGED <<lifecycleVars, batteryVars, scoreVars, tierVars, proofVars,
                 fieldVars, probeVars>>

\* The store: the records that submissions have left in it (index.ts:206-213
\* and 290), each under test, finished with a score on either side of 60
\* (296-299), attested (309), or failed by an exception (317-319).
InitOfLookup ==
  LET names == {"alpha", "Alpha", "beta", NotAString}
      started(id, name) == StartRun(NewRecord(id, name))
      records(id) ==
        {started(id, name) : name \in names}
          \cup {Finish(started(id, name), [score |-> score, checks |-> <<>>], now) :
                  name \in names, score \in {59, 60, 85}, now \in 1..2}
          \cup {[Finish(started(id, name), [score |-> 85, checks |-> <<>>], 1)
                   EXCEPT !.attestationTx = "signature"] : name \in names}
          \cup {Fail(started(id, name), 2) : name \in names}
  IN  /\ \E n \in 0..MaxRuns :
           /\ verifications = [id \in 1..n |-> id]
           /\ \E stored \in [1..n -> UNION {records(id) : id \in 1..n}] :
                /\ \A id \in 1..n : stored[id].id = id
                /\ result = [r \in Runs |-> IF r <= n THEN stored[r]
                                            ELSE NewRecord(0, None)]
      /\ pc = [r \in Runs |-> "idle"]
      /\ req = [r \in Runs |-> NoRequest]
      /\ rejected = FALSE
      /\ InitBattery
      /\ InitScore
      /\ InitLibrary

SpecLookup ==
  InitOfLookup /\ [][\E agent \in {"alpha", "ALPHA", "beta"} : ScoreLookup(agent)]_vars

(***************************************************************************)
(* calculateScore alone, on the check mappings verifyAgent hands to it:    *)
(* liveness passed, healthEndpoint and validJson present, up to            *)
(* MaxCapChecks capability checks, and the three checks of the             *)
(* comprehensive level all present or all absent.  Capability checks all   *)
(* weigh the same, so a mapping lists those that passed first.             *)
(***************************************************************************)
NamedChecks == <<"liveness", "healthEndpoint", "validJson",
                 "consistency", "errorHandling", "rateLimiting">>

\* for each named check: absent, failed or passed
Outcomes == {"absent", "failed", "passed"}

RECURSIVE NamedPart(_, _)
NamedPart(o, i) ==
  IF i > Len(NamedChecks) THEN <<>>
  ELSE (IF o[i] = "absent" THEN <<>>
        ELSE <<[name |-> NamedChecks[i], passed |-> o[i] = "passed"]>>)
       \o NamedPart(o, i + 1)

\* k capability checks, the first p of them passed
CapabilityPart(k, p) ==
  [i \in 1..k |-> [name |-> CapKey(ToString(i)), passed |-> i <= p]]

Shapes ==
  {o \in [1..Len(NamedChecks) -> Outcomes] :
     /\ o[1] = "passed" /\ o[2] # "absent" /\ o[3] # "absent"
     /\ (o[4] = "absent") = (o[5] = "absent")
     /\ (o[5] = "absent") = (o[6] = "absent")}

\* named checks first: the sum of the weights does not depend on the order
\* and, for the two ends of the scale, the mappings of a request of 92
\* capabilities, all of them failed or all passed, and those of a request of
\* 593 capabilities where liveness alone passed
Mappings ==
  {NamedPart(o, 1) \o CapabilityPart(k, p) :
     o \in Shapes, k \in 0..MaxCapChecks, p \in 0..MaxCapChecks}
    \cup {NamedPart(o, 1) \o CapabilityPart(92, p) : o \in Shapes, p \in {0, 92}}
    \cup {NamedPart(o, 1) \o CapabilityPart(593, 0) :
            o \in {q \in Shapes : \A i \in 2..Len(NamedChecks) : q[i] # "passed"}}

Score ==
  /\ sOut = Absent
  /\ sOut' = Some(calculateScore(sChecks).score)
  /\ UNCHANGED <<lifecycleVars, batteryVars, sChecks, libraryVars>>

InitOfScore ==
  /\ verifications = <<>>
  /\ result = [r \in Runs |-> NewRecord(0, None)]
  /\ pc = [r \in Runs |-> "idle"]
  /\ req = [r \in Runs |-> NoRequest]
  /\ rejected = FALSE
  /\ InitBattery
  /\ sChecks \in Mappings
  /\ sOut = Absent
  /\ InitLibrary

SpecScore == InitOfScore /\ [][Score]_vars

(***************************************************************************)
(* calculateTier (index.ts:752-757) on its own: the service at rest, the   *)
(* function called on one integer after another.                           *)
(***************************************************************************)
\* how far below 0 and above 100 the arguments of calculateTier go
MaxTierMargin == 10

TierScores == (0 - MaxTierMargin)..(100 + MaxTierMargin)

\* index.ts:752-757 with the tests in the opposite order
calculateTierLowestTestFirst(score) ==
  IF score >= 40 THEN "fair"
  ELSE IF score >= 60 THEN "good"
  ELSE IF score >= 80 THEN "excellent"
  ELSE "needs-work"

\* index.ts:752-757
calculateTier(score) ==
  IF score >= 80 THEN "excellent"
  ELSE IF score >= 60 THEN "good"
  ELSE IF score >= 40 THEN "fair"
  ELSE "needs-work"

TierCall(score) ==
  /\ tPrev' = tCur
  /\ tCur' = Some([score |-> score, tier |-> calculateTier(score)])
  /\ UNCHANGED <<lifecycleVars, batteryVars, scoreVars, proofVars, fieldVars,
                 probeVars, lookup>>

InitOfTier ==
  /\ verifications = <<>>
  /\ result = [r \in Runs |-> NewRecord(0, None)]
  /\ pc = [r \in Runs |-> "idle"]
  /\ req = [r \in Runs |-> NoRequest]
  /\ rejected = FALSE
  /\ InitBattery
  /\ InitScore
  /\ InitLibrary

NextOfTier == \E score \in TierScores : TierCall(score)

SpecTier == InitOfTier /\ [][NextOfTier]_vars

(***************************************************************************)
(* The threshold proof (index.ts:340-605).  A bigint of the source is an   *)
(* integer here.  The field operations of the source reduce a sum or a     *)
(* product of any two bigints; here both operands are reduced first and    *)
(* the sum and the product are built from sums below the prime, which is   *)
(* the same residue and keeps every intermediate value below 2^31.         *)
(***************************************************************************)
\* index.ts:345  2^31 - 1
M31_PRIME == 2147483647

\* index.ts:353-356  M31.mod: the remainder of the source has the sign of n
M31mod(n) ==
  LET remainder == IF n >= 0 THEN n % M31_PRIME ELSE 0 - ((0 - n) % M31_PRIME)
  IN IF remainder < 0 THEN remainder + M31_PRIME ELSE remainder

\* the sum of two residues, reduced
AddResidues(x, y) ==
  IF x >= M31_PRIME - y THEN x - (M31_PRIME - y) ELSE x + y

\* index.ts:358-360  M31.add
M31add(a, b) == AddResidues(M31mod(a), M31mod(b))

\* the product of two residues, reduced: x taken y times, by doubling;
\* m is <<the sum so far, x doubled so far, what is left of y>>
RECURSIVE MulResidues(_)
MulResidues(m) ==
  IF m[3] = 0 THEN m[1]
  ELSE MulResidues(<<IF m[3] % 2 = 1 THEN AddResidues(m[1], m[2]) ELSE m[1],
                     AddResidues(m[2], m[2]), m[3] \div 2>>)

\* index.ts:366-368  M31.mul
M31mul(a, b) == MulResidues(<<0, M31mod(a), M31mod(b)>>)

\* index.ts:373-379  the loop of M31.pow
\* p is <<result, base, exp>>
RECURSIVE PowLoop(_)
PowLoop(p) ==
  IF p[3] > 0
  THEN PowLoop(<<IF p[3] % 2 = 1 THEN M31mul(p[1], p[2]) ELSE p[1],
                 M31mul(p[2], p[2]), p[3] \div 2>>)
  ELSE p[1]

\* index.ts:370-381  M31.pow
M31pow(base, exp) == PowLoop(<<1, M31mod(base), exp>>)

\* index.ts:362-364  M31.sub: a - b + M31_PRIME, reduced
M31sub(a, b) ==
  AddResidues(AddResidues(M31mod(a), M31mod(0 - b)), M31mod(M31_PRIME))

\* index.ts:383-385 with the exponent M31_PRIME - 1
M31invExponentOneMore(a) == M31pow(a, M31_PRIME - 1)

\* index.ts:383-385  M31.inv
M31inv(a) == M31pow(a, M31_PRIME - 2)

\* A bigint literal above 2^31, written thousands * 1000 + units; only its
\* residue is ever used (index.ts:400 adds it with M31.add).
Thousands(thousands, units) == M31add(M31mul(thousands, 1000), units)

\* index.ts:394-397
ROUND_CONSTANTS ==
  <<1234567891, Thousands(2345678, 912), Thousands(3456789, 123),
    Thousands(4567891, 234), Thousands(5678912, 345), Thousands(6789123, 456),
    Thousands(7891234, 567), Thousands(8912345, 678)>>

\* index.ts:399-404  the loop of poseidonHash, from input i on
RECURSIVE Absorb(_, _, _)
Absorb(state, hashInputs, i) ==
  IF i > Len(hashInputs) THEN state
  ELSE LET added == M31add(state, hashInputs[i])
           keyed == M31add(added,
                           ROUND_CONSTANTS[((i - 1) % Len(ROUND_CONSTANTS)) + 1])
       IN Absorb(M31mod(M31pow(keyed, 5)), hashInputs, i + 1)

\* index.ts:392-407  poseidonHash
poseidonHash(hashInputs) == Absorb(0, hashInputs, 1)

\* A string of the proof is the sequence of its characters.
\* The digits of bigint.toString(16), for n >= 0:
RECURSIVE HexDigits(_)
HexDigits(n) ==
  LET chars == <<"0", "1", "2", "3", "4", "5", "6", "7",
                 "8", "9", "a", "b", "c", "d", "e", "f">>
  IN IF n < 16 THEN <<chars[n + 1]>>
     ELSE Append(HexDigits(n \div 16), chars[(n % 16) + 1])

\* index.ts:549-554  bigint.toString(16)
toString16(n) == IF n < 0 THEN <<"-">> \o HexDigits(0 - n) ELSE HexDigits(n)

(***************************************************************************)
(* The operations of M31 on their own: one call, on operands of the field  *)
(* taken at its ends, around 2^16 and 2^30, and in between.                *)
(***************************************************************************)
FieldCall ==
  /\ fOut = Absent
  /\ fOut' = Some(CASE fCall.op = "add" -> M31add(fCall.a, fCall.b)
                    [] fCall.op = "sub" -> M31sub(fCall.a, fCall.b)
                    [] fCall.op = "mul" -> M31mul(fCall.a, fCall.b)
                    [] fCall.op = "pow" -> M31pow(fCall.a, fCall.b)
                    [] fCall.op = "inv" -> M31inv(fCall.a))
  /\ UNCHANGED <<lifecycleVars, batteryVars, scoreVars, tierVars, proofVars,
                 probeVars, lookup, fCall>>

InitOfField ==
  /\ verifications = <<>>
  /\ result = [r \in Runs |-> NewRecord(0, None)]
  /\ pc = [r \in Runs |-> "idle"]
  /\ req = [r \in Runs |-> NoRequest]
  /\ rejected = FALSE
  /\ InitBattery
  /\ InitScore
  /\ tPrev = Absent /\ tCur = Absent
  /\ circuit = NoCircuit /\ proved = Absent /\ checked = Absent
  /\ \E a, b \in {0, 1, 2, 3, 46341, 65535, 65536, 1073741824, 1234567891,
                  M31_PRIME - 2, M31_PRIME - 1} :
       \/ \E op \in {"add", "sub", "mul"} : fCall = [op |-> op, a |-> a, b |-> b]
       \/ fCall = [op |-> "pow", a |-> a, b |-> 0]
       \/ fCall = [op |-> "pow", a |-> a, b |-> 5]
       \/ fCall = [op |-> "inv", a |-> a, b |-> 0]
  /\ fOut = Absent
  /\ pCall = [probe |-> "none", capability |-> None, os |-> <<>>]
  /\ pOut = Absent
  /\ lookup = NoLookup

SpecField == InitOfField /\ [][FieldCall]_vars

(***************************************************************************)
(* A number of the source (score, threshold, timestamp: number) is an      *)
(* integer plus a fraction in tenths, 0 or 5: enough to tell the numbers   *)
(* BigInt() converts from those it throws a RangeError on.                 *)
(***************************************************************************)
Whole(n) == [int |-> n, frac |-> 0]
AndAHalf(n) == [int |-> n, frac |-> 5]

\* a >= b on numbers
AtLeast(a, b) == a.int > b.int \/ (a.int = b.int /\ a.frac >= b.frac)

\* BigInt(x) throws a RangeError unless x is an integer
IsInteger(x) == x.frac = 0
BigInt(x) == x.int

\* index.ts:438
thirtyDays == 30 * 24 * 60 * 60

\* index.ts:431
rangeValid(inputs) ==
  AtLeast(inputs.score, Whole(0)) /\ AtLeast(Whole(125), inputs.score)

\* index.ts:434
meetsThreshold(inputs) == AtLeast(inputs.score, inputs.threshold)

\* index.ts:437-439  now - timestamp < thirtyDays, where now is the integer
\* Math.floor(Date.now() / 1000)
notExpired(inputs, clock) ==
  LET now == clock.seconds
      whole == now - inputs.timestamp.int
  IN whole < thirtyDays \/ (whole = thirtyDays /\ inputs.timestamp.frac > 0)

\* index.ts:442-447, 494-499
Commitment(inputs) ==
  poseidonHash(<<inputs.agentIdHash, BigInt(inputs.score),
                 BigInt(inputs.threshold), BigInt(inputs.timestamp)>>)

\* index.ts:425-454
evaluateCircuit(inputs, clock) ==
  [meetsThreshold |-> meetsThreshold(inputs) /\ rangeValid(inputs)
                        /\ notExpired(inputs, clock),
   commitment |-> Commitment(inputs),
   constraintsSatisfied |-> rangeValid(inputs) /\ notExpired(inputs, clock)]

\* index.ts:464-511  the four rows of the trace
generateExecutionTrace(inputs) ==
  LET scoreBig == BigInt(inputs.score)
      timestampBig == BigInt(inputs.timestamp)
      rangeCheckResult == IF rangeValid(inputs) THEN 1 ELSE 0
      thresholdResult == IF meetsThreshold(inputs) THEN 1 ELSE 0
  IN <<<<scoreBig, BigInt(inputs.threshold), inputs.agentIdHash, timestampBig>>,
       <<scoreBig, rangeCheckResult, inputs.agentIdHash, timestampBig>>,
       <<scoreBig, thresholdResult, inputs.agentIdHash, timestampBig>>,
       <<Commitment(inputs), thresholdResult, inputs.agentIdHash,
         timestampBig>>>>

\* index.ts:550  the rows joined by ";", the values of a row by ","
RECURSIVE Join(_, _)
Join(strings, separator) ==
  IF Len(strings) = 0 THEN <<>>
  ELSE IF Len(strings) = 1 THEN strings[1]
  ELSE strings[1] \o <<separator>> \o Join(Tail(strings), separator)

TraceString(states) ==
  Join([r \in DOMAIN states |->
          Join([v \in DOMAIN states[r] |-> toString16(states[r][v])], ",")],
       ";")

\* What a call of generateStarkProof comes to: a proof, or an exception.
Proved(proof) == [error |-> "none", proof |-> Some(proof)]
Throws(error) == [error |-> error, proof |-> Absent]

\* index.ts:538
ConstraintError == "Circuit constraints not satisfied"

\* index.ts:533-563.  The trace is built first (534): its BigInt()
\* conversions throw on a number that is not an integer before the
\* circuit is evaluated.  Of BigInt(Date.now()) (545), milliseconds, only
\* the residue is used.
generateStarkProof(inputs, clock) ==
  IF ~(IsInteger(inputs.score) /\ IsInteger(inputs.threshold)
         /\ IsInteger(inputs.timestamp))
  THEN Throws("RangeError")
  ELSE
    LET trace == generateExecutionTrace(inputs)
        outputs == evaluateCircuit(inputs, clock)
    IN IF ~outputs.constraintsSatisfied
       THEN Throws(ConstraintError)
       ELSE Proved(
         [commitment |-> toString16(outputs.commitment),
          trace |-> TraceString(trace),
          proofHash |-> toString16(poseidonHash(
                          <<outputs.commitment, Len(trace),
                            Thousands(clock.seconds, clock.millis)>>)),
          publicInputs |->
            [threshold |-> inputs.threshold,
             agentIdHash |-> toString16(inputs.agentIdHash),
             timestampVerified |-> inputs.timestamp]])

(***************************************************************************)
(* The proof functions on their own: the service at rest, one proof        *)
(* generated for inputs and a clock chosen at the start.                   *)
(***************************************************************************)
\* index.ts:437, 545  what Date.now() reads, in seconds and milliseconds
Clocks == {[seconds |-> 1700000000, millis |-> 0],
           [seconds |-> 1700000000, millis |-> 999]}

\* index.ts:412-417  scores and thresholds on both sides of 0, 100 and 125,
\* timestamps around the clock and around thirty days before it, each an
\* integer or not
CircuitInputs(clock) ==
  [score : {Whole(n) : n \in {0 - 1, 0, 50, 70, 100, 125, 126, 130}}
             \cup {AndAHalf(50), AndAHalf(130)},
   threshold : {Whole(n) : n \in {0 - 1, 0, 60, 100, 101, 130}}
                 \cup {AndAHalf(60)},
   timestamp :
     {Whole(clock.seconds - age) :
        age \in {0 - 60, 0, 1, thirtyDays - 1, thirtyDays, thirtyDays + 1}}
       \cup {AndAHalf(clock.seconds - 1), AndAHalf(clock.seconds - thirtyDays)},
   agentIdHash : {0, 12345, M31_PRIME}]

Generate ==
  /\ proved = Absent
  /\ proved' = Some(generateStarkProof(circuit.inputs, circuit.clock))
  /\ UNCHANGED <<lifecycleVars, batteryVars, scoreVars, tierVars, fieldVars,
                 probeVars, lookup, circuit, checked>>

\* index.ts:571  BigInt('0x' + s) throws a SyntaxError unless s is one
\* hexadecimal digit or more
IsHex(string) ==
  /\ Len(string) > 0
  /\ \A c \in DOMAIN string : \E n \in 0..15 : HexDigits(n) = <<string[c]>>

\* index.ts:584-590 alone, as if the conversion of line 571 never threw
verifyStarkProofWithoutParse(proof) ==
  /\ Len(proof.commitment) > 0
  /\ Len(proof.trace) > 0
  /\ Len(proof.proofHash) > 0
  /\ AtLeast(proof.publicInputs.threshold, Whole(0))
  /\ AtLeast(Whole(100), proof.publicInputs.threshold)

\* index.ts:568-594.  The hash recomputed at 575-580 is compared with
\* nothing; what it needs is that the commitment parses (571), or the catch
\* of line 591 returns false.
verifyStarkProof(proof) ==
  IF ~IsHex(proof.commitment) THEN FALSE
  ELSE /\ Len(proof.commitment) > 0
       /\ Len(proof.trace) > 0
       /\ Len(proof.proofHash) > 0
       /\ AtLeast(proof.publicInputs.threshold, Whole(0))
       /\ AtLeast(Whole(100), proof.publicInputs.threshold)

Verify ==
  /\ proved # Absent /\ proved[1].error = "none"
  /\ checked = Absent
  /\ checked' = Some(verifyStarkProof(proved[1].proof[1]))
  /\ UNCHANGED <<lifecycleVars, batteryVars, scoreVars, tierVars, fieldVars,
                 probeVars, lookup, circuit, proved>>

\* Any proof object a third party hands to the verifier: the strings and
\* the threshold are anything, related to no score.
Forge ==
  /\ proved = Absent
  /\ \E commitment \in {<<>>, <<"0">>, <<"f", "f">>, <<"g">>, <<"-", "1">>},
        trace \in {<<>>, <<"0">>, <<"1", ";", "2">>},
        proofHash \in {<<>>, <<"0">>, <<"z">>},
        threshold \in {Whole(0 - 1), Whole(0), Whole(100), Whole(101),
                       AndAHalf(99), AndAHalf(100)} :
       proved' = Some(Proved(
         [commitment |-> commitment, trace |-> trace, proofHash |-> proofHash,
          publicInputs |-> [threshold |-> threshold, agentIdHash |-> <<"0">>,
                            timestampVerified |-> Whole(0)]]))
  /\ UNCHANGED <<lifecycleVars, batteryVars, scoreVars, tierVars, fieldVars,
                 probeVars, lookup, circuit, checked>>

NextOfVerify == Forge \/ Verify

\* the verifier on its own, the service at rest
SpecVerify == Init /\ [][NextOfVerify]_vars

InitOfProof ==
  /\ verifications = <<>>
  /\ result = [r \in Runs |-> NewRecord(0, None)]
  /\ pc = [r \in Runs |-> "idle"]
  /\ req = [r \in Runs |-> NoRequest]
  /\ rejected = FALSE
  /\ InitBattery
  /\ InitScore
  /\ tPrev = Absent /\ tCur = Absent
  /\ \E clock \in Clocks :
       \E inputs \in CircuitInputs(clock) :
         circuit = [inputs |-> inputs, clock |-> clock]
  /\ proved = Absent
  /\ checked = Absent
  /\ fCall = [op |-> "none", a |-> 0, b |-> 0] /\ fOut = Absent
  /\ pCall = [probe |-> "none", capability |-> None, os |-> <<>>]
  /\ pOut = Absent
  /\ lookup = NoLookup

NextOfProof == Generate \/ Verify

SpecProof == InitOfProof /\ [][NextOfProof]_vars

(***************************************************************************)
(* Properties.                                                             *)
(***************************************************************************)
\* the record stored under an id
Stored(id) == result[Owner(id)]

StoredIds == DOMAIN verifications

\* C1: in every reachable state every stored record has completedAt set if
\* and only if its status is verified or failed.
C1_CompletedAtIffTerminal ==
  \A id \in StoredIds :
    (Stored(id).completedAt # Absent) <=> (Stored(id).status \in Terminal)

\* a finished record beside a record still under test
C1_Witness ==
  \E a, b \in StoredIds :
    /\ Stored(a).status \in Terminal /\ Stored(a).completedAt # Absent
    /\ Stored(b).status = "testing" /\ Stored(b).completedAt = Absent

\* C2: a verified record has score >= 60, a failed record has score < 60, and
\* the record of a run that threw is failed with its score still 0; so a run
\* whose battery returned score s ended verified iff s >= 60.
C2_StatusFollowsScore ==
  \A r \in Runs :
    /\ result[r].status = "verified" => result[r].score >= 60
    /\ result[r].status = "failed" => result[r].score < 60
    /\ pc[r] = "threw" => result[r].status = "failed" /\ result[r].score = 0
    /\ pc[r] \in {"done", "attest", "attested", "attestFailed"} =>
         (result[r].status = "verified") = (result[r].score >= 60)

\* a verified record beside a failed one whose battery scored above 0
C2_Witness ==
  \E a, b \in Runs :
    /\ result[a].status = "verified" /\ result[a].score >= 60
    /\ result[b].status = "failed" /\ result[b].score \in 1..59

\* the score calculateScore or the liveness short circuit gives for these checks
ScoreOf(checks) ==
  IF checks[1].name = "error" THEN 0
  ELSE IF ~checks[1].passed THEN 0
  ELSE calculateScore(checks).score

\* C3: whatever a status query is answered, at any point of a run, is a record
\* either wholly before the transition (testing, score 0, no checks, no
\* completedAt) or wholly after it (terminal, with completedAt, its checks
\* and the score of those checks).
C3_SnapshotsAreWhole ==
  \A id \in Ids :
    LET answer == StatusResponse(id)
        rec == answer.body
    IN  answer.code = 200 =>
          \/ /\ rec.status = "testing"
             /\ rec.score = 0 /\ rec.checks = <<>> /\ rec.completedAt = Absent
          \/ /\ rec.status \in Terminal
             /\ rec.completedAt # Absent /\ rec.checks # <<>>
             /\ rec.score = ScoreOf(rec.checks)

\* a query answered with a verified record whose score is above 0, while the
\* other run is still under test
C3_Witness ==
  \E a, b \in Ids :
    /\ StatusResponse(a).code = 200 /\ StatusResponse(b).code = 200
    /\ StatusResponse(a).body.status = "verified"
    /\ StatusResponse(a).body.score > 0
    /\ StatusResponse(b).body.status = "testing"

\* C4: no stored record is ever pending, and a status query answered while
\* the battery of its request is running shows testing.
C4_TestingWhileBatteryRuns ==
  \A id \in StoredIds :
    /\ StatusResponse(id).body.status # "pending"
    /\ pc[Owner(id)] = "battery" => StatusResponse(id).body.status = "testing"

\* a query answered while the battery of its request is running
C4_Witness ==
  \E id \in StoredIds :
    pc[Owner(id)] = "battery" /\ StatusResponse(id).code = 200

\* C5: a record is not observable as verified or failed before verifyAgent
\* has returned or thrown for it.
C5_NotTerminalBeforeBatteryEnds ==
  \A id \in StoredIds :
    StatusResponse(id).body.status \in Terminal => pc[Owner(id)] # "battery"

\* both runs submitted, one observed terminal after its battery, the other
\* observed while its battery runs
C5_Witness ==
  \E a, b \in StoredIds :
    /\ StatusResponse(a).body.status \in Terminal /\ pc[Owner(a)] = "done"
    /\ StatusResponse(b).body.status \notin Terminal /\ pc[Owner(b)] = "battery"

\* C6: the score of a record is 0 until the step that makes its status
\* terminal, changes only in that step, and so changes at most once.
C6_ScoreWrittenOnce ==
  [][\A r \in Runs :
       /\ result'[r].status \notin Terminal => result'[r].score = 0
       /\ result'[r].score # result[r].score =>
            result[r].status = "testing" /\ result'[r].status \in Terminal]_vars

\* a record with a score above 0 that has since been attested
C6_Witness == \E r \in Runs : pc[r] = "attested" /\ result[r].score > 0

\* C7: once the liveness probe has failed the invocation has returned, with
\* score 0 and the single check liveness = false, and no probe but liveness
\* was started, whatever the level and the capability list.
C7_LivenessFailureShortCircuits ==
  (vst.checks # <<>> /\ ~vst.checks[1].passed) =>
    /\ vst.pc = "returned"
    /\ vst.out = Some([score |-> 0,
                       checks |-> <<[name |-> "liveness", passed |-> FALSE]>>])
    /\ vst.issued = <<"liveness">>

\* liveness failed at a level above basic, with capabilities to test
C7_Witness ==
  /\ vst.checks # <<>> /\ ~vst.checks[1].passed
  /\ vst.level = "comprehensive" /\ vst.caps.iterable /\ vst.caps.items # <<>>

\* The weight table and the quotient of C8, from the claim: the weights of
\* the named checks and 10 for each of the others.
NamedWeight ==
  [liveness |-> 30, healthEndpoint |-> 10, validJson |-> 15,
   consistency |-> 10, errorHandling |-> 10, rateLimiting |-> 5]

ClaimedWeightOf(entries) ==
  LET named == {i \in DOMAIN entries : entries[i].name \in DOMAIN NamedWeight}
      count(w) == Cardinality({i \in named : NamedWeight[entries[i].name] = w})
  IN  30 * count(30) + 15 * count(15) + 10 * count(10) + 5 * count(5)
      + 10 * (Len(entries) - Cardinality(named))

ClaimedScore(checks) ==
  LET passed == SelectSeq(checks, LAMBDA e : e.passed)
      sum == ClaimedWeightOf(passed)
      all == ClaimedWeightOf(checks)
  IN  \* round(100 * sum / all), a half rounding up as Math.round does
      CHOOSE n \in 0..100 : 2 * all * n <= 200 * sum + all
                            /\ 200 * sum + all < 2 * all * (n + 1)

\* C8: calculateScore returns round(100 * passed weight / present weight).
C8_ScoreIsRoundedQuotient ==
  sOut # Absent => sOut = Some(ClaimedScore(sChecks))

\* C9, as claimed: of two invocations for the same request at consecutive
\* levels, both with liveness passed, the higher level started strictly more
\* probes, the lower level's first and in the same order.
Live(inv) == inv.live /\ inv.pc \in {"returned", "threw"}

IsPrefix(p, q) == Len(p) <= Len(q) /\ SubSeq(q, 1, Len(p)) = p

Range(q) == {q[i] : i \in DOMAIN q}

Consecutive(lo, hi) ==
  \/ lo.level = "basic" /\ hi.level = "standard"
  \/ lo.level = "standard" /\ hi.level = "comprehensive"

\* the two invocations at hand, in either order
InvocationPairs ==
  {<<vPrev, Summary(vst)>>, <<Summary(vst), vPrev>>}

C10_AttestationFailureSwallowed ==
  [][\A r \in Runs :
       /\ pc'[r] = "attestFailed" =>
            /\ result'[r].status = "verified" /\ result'[r].score >= 60
            /\ result'[r].completedAt # Absent /\ result'[r].checks # <<>>
            /\ result'[r].attestationTx = None
       /\ (pc[r] \in {"attest", "attestFailed"} /\ pc'[r] = "attestFailed") =>
            result'[r] = result[r]]_vars

\* a run whose attestation write failed
C10_Witness == \E r \in Runs : pc[r] = "attestFailed" /\ result[r].status = "verified"

\* the positions of a run that has called createAttestation
Attempted == {"attest", "attested", "attestFailed"}

\* C11: createAttestation is called at most once per run (a run enters the
\* positions after the call from the battery only, and never leaves them),
\* only for a record that is verified and a request that gave a
\* walletAddress, never for a record that is failed; and a record with an
\* attestationTx is verified.
C11_AttestationOnlyWhenVerified ==
  [][\A r \in Runs :
       /\ pc'[r] \in Attempted =>
            /\ result'[r].status = "verified"
            /\ req'[r].walletAddress # None
            /\ pc[r] \in Attempted \cup {"battery"}
       /\ pc[r] \in Attempted => pc'[r] \in Attempted
       /\ result'[r].status = "failed" => pc'[r] \notin Attempted
       /\ result'[r].attestationTx # None => result'[r].status = "verified"]_vars

\* an attested record beside a failed one whose request gave a walletAddress
C11_Witness ==
  \E a, b \in Runs :
    /\ pc[a] = "attested" /\ result[a].attestationTx # None
    /\ result[b].status = "failed" /\ req[b].walletAddress # None
    /\ pc[b] \in {"done", "threw"}

\* the synthetic entry of a run that threw
ErrorCheck == <<[name |-> "error", passed |-> FALSE]>>

\* C12: a run whose battery threw stands in the catch of runVerification,
\* with its record failed, checks {error: false}, completedAt set and score
\* 0; the step that catches the exception changes no other record, no other
\* run and no key of the store, and a submission accepted in any state,
\* after a throw too, starts its run with a fresh record under test.
C12_ThrowEndsFailed ==
  [][\A r \in Runs :
       /\ pc'[r] = "threw" =>
            /\ result'[r].status = "failed" /\ result'[r].score = 0
            /\ result'[r].checks = ErrorCheck
            /\ result'[r].completedAt # Absent
            /\ result'[r].attestationTx = None
       /\ (pc[r] = "battery" /\ pc'[r] = "threw") =>
            /\ \A q \in Runs \ {r} : result'[q] = result[q] /\ pc'[q] = pc[q]
            /\ DOMAIN verifications' = DOMAIN verifications
            /\ result'[r].id = result[r].id
       /\ (pc[r] = "idle" /\ pc'[r] # "idle") =>
            /\ pc'[r] = "battery"
            /\ result'[r] = StartRun(NewRecord(result'[r].id, result'[r].agentName))]_vars

\* a run that threw, and a run that ended verified after it
C12_Witness ==
  \E a, b \in Runs :
    /\ pc[a] = "threw" /\ result[a].checks = ErrorCheck
    /\ result[b].status = "verified"
    /\ result[b].completedAt[1] > result[a].completedAt[1]

\* C13: the step that answers a submission 400 changes neither the store
\* nor any record, run or request, and every run that starts does so for a
\* submission that has its agentName and its apiEndpoint.
C13_RejectionStartsNothing ==
  [][/\ rejected' # rejected => UNCHANGED <<verifications, result, pc, req>>
     /\ \A r \in Runs :
          (pc[r] = "idle" /\ pc'[r] # "idle") =>
            /\ result'[r].agentName # None /\ req'[r].endpoint # None
            /\ rejected' = rejected]_vars

\* a submission was rejected: the store is empty and no run has started
C13_Witness ==
  /\ rejected
  /\ verifications = <<>>
  /\ \A r \in Runs : pc[r] = "idle" /\ result[r] = NewRecord(0, None)

\* the check of the probe that resolved last
LastResolved(st) ==
  IF Settled(st) THEN st.issued[Len(st.issued)]
  ELSE st.issued[Len(st.issued) - 1]

\* C14: for a string endpoint and an array of capabilities verifyAgent
\* never throws, whatever the requests of its probes come to (transport
\* failures, any status, any kind of data), and a probe all of whose requests
\* ended in a transport failure has reported success: false.
C14_ProbesNeverThrow ==
  (IsString(vst.endpoint) /\ vst.caps.iterable) =>
    /\ vst.pc # "threw"
    /\ (vst.transport = "all" /\ vst.checks # <<>>) =>
         \A i \in DOMAIN vst.checks :
           vst.checks[i].name = LastResolved(vst) => ~vst.checks[i].passed
    /\ vst.pc = "returned" =>
         /\ vst.out # Absent
         /\ vst.out[1].score \in 0..100
         /\ vst.out[1].checks = vst.checks

\* a comprehensive battery that returned a score although the requests of
\* its last probe all ended in a transport failure
C14_Witness ==
  /\ IsString(vst.endpoint) /\ vst.caps.iterable /\ vst.caps.items # <<>>
  /\ vst.level = "comprehensive" /\ vst.pc = "returned"
  /\ vst.transport = "all"
  /\ Len(vst.checks) > 6 /\ vst.out[1].score > 0

\* C15: no two submissions are stored under the same id, no step replaces
\* the record stored under an id, and no two runs write records of the same
\* id.
C15_IdWrittenByItsOwnerOnly ==
  [][/\ \A id \in DOMAIN verifications : verifications'[id] = verifications[id]
     /\ \A r, q \in Runs :
          (r # q /\ pc'[r] # "idle" /\ pc'[q] # "idle") =>
            result'[r].id # result'[q].id]_vars

\* what the battery of run r can come to: the score and status of a battery
\* that returned, or a throw
OwnOutcomes(r) ==
  {LET inv == RunBattery(Invoke(req[r].endpoint, req[r].capabilities, req[r].level), b)
   IN  IF inv.pc = "threw" THEN [score |-> 0, status |-> "failed"]
       ELSE [score  |-> inv.out[1].score,
             status |-> IF inv.out[1].score >= 60 THEN "verified" ELSE "failed"] :
   b \in Behaviours}

\* C16: a step changes the record, the position and the request of one run
\* at most; the terminal status and score a record gets are those of the
\* battery of its own request; and the store keeps every id, each with a
\* record of that id.
C16_RunsAreIndependent ==
  [][/\ \A r, q \in Runs :
          (r # q /\ <<result'[r], pc'[r], req'[r]>> # <<result[r], pc[r], req[r]>>) =>
            <<result'[q], pc'[q], req'[q]>> = <<result[q], pc[q], req[q]>>
     /\ \A r \in Runs :
          (result[r].status \notin Terminal /\ result'[r].status \in Terminal) =>
            [score |-> result'[r].score, status |-> result'[r].status] \in OwnOutcomes(r)
     /\ \A id \in DOMAIN verifications :
          /\ id \in DOMAIN verifications'
          /\ result'[verifications'[id]].id = id]_vars

\* two runs that ended differently: one verified with 100, one failed with 0
C16_Witness ==
  \E a, b \in Runs :
    /\ result[a].status = "verified" /\ result[a].score = 100
    /\ result[b].status = "failed" /\ result[b].score = 0
    /\ result[a].id # result[b].id
    /\ {result[a].id, result[b].id} \subseteq DOMAIN verifications

\* C17: every accepted request (its run then awaits the battery) gets to
\* status verified or failed, whether or not its attestation write ends.
C17_EveryRunEnds ==
  \A r \in Runs : (pc[r] = "battery") ~> (result[r].status \in Terminal)

\* a run that waits for its attestation write with its record terminal
C17_Witness ==
  \E r \in Runs :
    /\ pc[r] = "attest" /\ result[r].status \in Terminal
    /\ result[r].attestationTx = None

\* The order of the tiers: needs-work < fair < good < excellent.
TierRank(tier) ==
  CASE tier = "needs-work" -> 0
    [] tier = "fair" -> 1
    [] tier = "good" -> 2
    [] tier = "excellent" -> 3

VerificationTiers == {"needs-work", "fair", "good", "excellent"}

\* C18: calculateTier gives every integer one of the four tiers, the one of
\* its band (>= 80, 60..79, 40..59, below 40), and a score that is not lower
\* never gets a lower tier.
C18_TierIsTotalAndMonotone ==
  tCur # Absent =>
    LET score == tCur[1].score
        tier == tCur[1].tier
    IN /\ tier \in VerificationTiers
       /\ tier = "excellent" <=> score >= 80
       /\ tier = "good" <=> (score >= 60 /\ score < 80)
       /\ tier = "fair" <=> (score >= 40 /\ score < 60)
       /\ tier = "needs-work" <=> score < 40
       /\ tPrev # Absent =>
            /\ tPrev[1].score <= score =>
                 TierRank(tPrev[1].tier) <= TierRank(tier)
            /\ tPrev[1].score >= score =>
                 TierRank(tPrev[1].tier) >= TierRank(tier)

\* two calls on the two sides of a threshold, the tier rising with the score
C18_Witness ==
  /\ tPrev # Absent /\ tCur # Absent
  /\ tPrev[1].score = 59 /\ tPrev[1].tier = "fair"
  /\ tCur[1].score = 60 /\ tCur[1].tier = "good"

\* C19: generateStarkProof throws the constraint error exactly when the score
\* is out of 0..125 or the timestamp is thirty days old or more, whatever the
\* threshold, and gives a proof otherwise.
C19_ConstraintErrorIffViolated ==
  proved # Absent =>
    LET violated == \/ ~rangeValid(circuit.inputs)
                    \/ ~notExpired(circuit.inputs, circuit.clock)
    IN /\ proved[1].error = ConstraintError <=> violated
       /\ ~violated => proved[1].error = "none"

\* C20: the verifier accepts every proof the generator returns.
C20_GeneratedProofVerifies ==
  checked # Absent => checked[1]

\* The proof the verifier was called on.
Presented == proved[1].proof[1]

\* the structure C21 names: three strings that are not empty, and a
\* threshold within 0..100
Structured(proof) ==
  /\ proof.commitment # <<>> /\ proof.trace # <<>> /\ proof.proofHash # <<>>
  /\ proof.publicInputs.threshold.int >= 0
  /\ \/ proof.publicInputs.threshold.int < 100
     \/ proof.publicInputs.threshold = [int |-> 100, frac |-> 0]

\* C21 as stated: the verifier returns true exactly for the proofs of that
\* structure.
C21_VerifierIsStructuralOnly ==
  checked # Absent => (checked[1] <=> Structured(Presented))

\* C21, amended: the verifier returns true exactly for the proofs of that
\* structure whose commitment is made of hexadecimal digits only.
C21_VerifierIsStructuralOnHex ==
  checked # Absent =>
    (checked[1] <=>
       /\ Structured(Presented)
       /\ \A c \in DOMAIN Presented.commitment :
            Presented.commitment[c] \in
              {"0", "1", "2", "3", "4", "5", "6", "7",
               "8", "9", "a", "b", "c", "d", "e", "f"})

\* a proof of that structure is refused because its commitment is no number
C21_Witness ==
  /\ checked # Absent /\ ~checked[1]
  /\ Structured(Presented)

\* C22: a proof that was generated and that the verifier accepts comes from
\* a score at or above its public threshold and a timestamp not expired when
\* it was generated.
C22_AcceptedProofMeetsThreshold ==
  (checked # Absent /\ checked[1]) =>
    /\ AtLeast(circuit.inputs.score, Presented.publicInputs.threshold)
    /\ circuit.clock.seconds - circuit.inputs.timestamp.int < thirtyDays

\* The pieces of a string between the occurrences of a separator.
RECURSIVE Split(_, _)
Split(string, separator) ==
  IF \A c \in DOMAIN string : string[c] # separator THEN <<string>>
  ELSE LET at == CHOOSE c \in DOMAIN string :
                   /\ string[c] = separator
                   /\ \A d \in 1..(c - 1) : string[d] # separator
       IN <<SubSeq(string, 1, at - 1)>>
            \o Split(SubSeq(string, at + 1, Len(string)), separator)

\* C23: no field of a generated proof is the score: not the commitment, not
\* the proof hash, not the identity hash, and no value of the serialized
\* trace.
C23_ProofHidesScore ==
  (proved # Absent /\ proved[1].error = "none") =>
    LET score == toString16(circuit.inputs.score.int)
        rows == Split(Presented.trace, ";")
    IN /\ Presented.commitment # score
       /\ Presented.proofHash # score
       /\ Presented.publicInputs.agentIdHash # score
       /\ \A r \in DOMAIN rows :
            \A v \in DOMAIN Split(rows[r], ",") : Split(rows[r], ",")[v] # score

\* (a * b) mod p for a, b in [0, p), worked out on limbs of 15 bits: the
\* product of two limbs is below 2^30, and 2^31 is 1 modulo p, so that a
\* multiplication by 2^e turns the 31 bits of a residue by e places.
ProductModP(a, b) ==
  LET p == 2147483647
      plus(x, y) == IF x >= p - y THEN x - (p - y) ELSE x + y
      turned(x, e) ==
        IF e = 0 THEN x
        ELSE LET cut == 2 ^ (31 - e)
                 sum == (x \div cut) + (x % cut) * (2 ^ e)
             IN IF sum = p THEN 0 ELSE sum
      limb(x, i) == IF i = 2 THEN x \div 1073741824
                    ELSE IF i = 1 THEN (x \div 32768) % 32768
                    ELSE x % 32768
      term(i, j) == turned(limb(a, i) * limb(b, j), (15 * (i + j)) % 31)
  IN plus(plus(plus(term(0, 0), term(0, 1)), plus(term(0, 2), term(1, 0))),
          plus(plus(plus(term(1, 1), term(1, 2)), plus(term(2, 0), term(2, 1))),
               term(2, 2)))

\* C24: on operands in [0, p) the sum, the difference and the product are in
\* [0, p) and are (a + b) mod p, (a - b) mod p and (a * b) mod p; the power
\* with exponent 0 is 1; and a nonzero a times its inverse is 1.
C24_FieldLaws ==
  fOut # Absent =>
    LET a == fCall.a
        b == fCall.b
        value == fOut[1]
    IN /\ fCall.op \in {"add", "sub", "mul"} => value \in 0..(M31_PRIME - 1)
       /\ fCall.op = "add" =>
            value = IF a >= M31_PRIME - b THEN a - (M31_PRIME - b) ELSE a + b
       /\ fCall.op = "sub" =>
            value = IF a >= b THEN a - b ELSE (a - b) + M31_PRIME
       /\ fCall.op = "mul" => value = ProductModP(a, b)
       /\ (fCall.op = "pow" /\ b = 0) => value = 1
       /\ (fCall.op = "inv" /\ a # 0) => M31mul(a, value) = 1

\* the inverse of p - 2 is found, and it is not p - 2 itself
C24_Witness ==
  /\ fOut # Absent /\ fCall.op = "inv" /\ fCall.a = M31_PRIME - 2
  /\ fOut[1] \notin {0, 1, fCall.a}
  /\ ProductModP(fCall.a, fOut[1]) = 1

\* C25: a capability probe succeeds if the body is an object with one of
\* the expected fields or if the status is 200, and fails otherwise; and a
\* name other than trading, analysis, social and defi is probed at /test.
C25_CapabilityProbe ==
  (pOut # Absent /\ pCall.probe = "capability") =>
    LET response == pCall.os[1]
    IN /\ ~pOut[1].res.threw
       /\ pOut[1].res.success <=>
            /\ ~response.failed
            /\ response.data = "expected" \/ response.status = 200
       /\ pCall.capability \notin {"trading", "analysis", "social", "defi"} =>
            pOut[1].path = "/test"

\* C26: the rate-limiting probe succeeds exactly when one of the five
\* responses has status 429 or a rate-limit header, whatever the other
\* requests come to.
C26_RateLimitProbe ==
  (pOut # Absent /\ pCall.probe = "rateLimiting") =>
    /\ Len(pCall.os) = 5
    /\ pOut[1].res.success <=>
         \E i \in DOMAIN pCall.os :
           /\ ~pCall.os[i].failed
           /\ pCall.os[i].status = 429 \/ pCall.os[i].limited

\* C27: a record whose status is verified or failed keeps its status, score,
\* checks and completedAt in every later step; its attestationTx changes
\* only from absent to present, and only on a verified record.
C27_TerminalIsAbsorbing ==
  [][\A r \in Runs :
       result[r].status \in Terminal =>
         /\ result'[r].status = result[r].status
         /\ result'[r].score = result[r].score
         /\ result'[r].checks = result[r].checks
         /\ result'[r].completedAt = result[r].completedAt
         /\ result'[r].attestationTx # result[r].attestationTx =>
              /\ result[r].attestationTx = None
              /\ result[r].status = "verified"]_vars

\* a verified record that has got its attestationTx, next to a failed one
C27_Witness ==
  \E a, b \in Runs :
    /\ result[a].status = "verified" /\ result[a].attestationTx # None
    /\ result[b].status = "failed" /\ pc[b] \in {"done", "threw"}

\* C28: a submission without testLevel is run at level basic and one that
\* names a level at the level it names; an invocation at basic starts no
\* capability probe and does not read the capability list
\* (a list that cannot be iterated does not make it throw); an invocation at
\* any level other than basic and standard whose liveness passed, for a
\* string endpoint and an array of capabilities, returns after the three
\* basic probes, one probe for each capability and consistency,
\* errorHandling and rateLimiting, in this order; and two invocations for
\* the same request at two levels other than basic and standard, liveness
\* passed in both, started the same probes and ended the same way.
BasicBattery == <<"liveness", "healthEndpoint", "validJson">>

ComprehensiveBattery(caps) ==
  BasicBattery
    \o [i \in 1..Len(caps.items) |-> CapKey(caps.items[i])]
    \o <<"consistency", "errorHandling", "rateLimiting">>

FallsThrough(level) == level \notin {"basic", "standard"}

C28_DepthFallsThrough ==
  /\ \A level \in Levels : LevelArgument(level) = level
  /\ (Live(Summary(vst)) /\ vst.level = LevelArgument(None)) =>
       /\ IsPrefix(vst.issued, BasicBattery)
       /\ IsString(vst.endpoint) =>
            vst.pc = "returned" /\ vst.issued = BasicBattery
  /\ (Live(Summary(vst)) /\ FallsThrough(vst.level)
        /\ IsString(vst.endpoint) /\ vst.caps.iterable) =>
       vst.pc = "returned" /\ vst.issued = ComprehensiveBattery(vst.caps)
  /\ (Live(vPrev) /\ Live(Summary(vst))
        /\ FallsThrough(vPrev.level) /\ FallsThrough(vst.level)) =>
       vPrev.issued = vst.issued /\ vPrev.pc = vst.pc

\* a level that is none of the three names, after a comprehensive
\* invocation for the same request with a capability to test, both returned
C28_Witness ==
  /\ vPrev.level = "comprehensive" /\ Live(vPrev)
  /\ vst.level = "deep" /\ Live(Summary(vst))
  /\ vst.pc = "returned" /\ vst.caps.items # <<>>
  /\ vst.issued = ComprehensiveBattery(vst.caps)
  /\ Len(vst.issued) > 6

\* C29: GET /api/score/:agent answers not-found when no stored record is
\* verified under a name that matches the agent without regard to case, and
\* otherwise answers with the name, score, completedAt and attestationTx of
\* one of those records, one whose completedAt is the latest among them;
\* the score it answers with is at least 60.
Matching(agent) ==
  {id \in DOMAIN verifications :
     /\ IsString(Stored(id).agentName)
     /\ toLowerCase(Stored(id).agentName) = toLowerCase(agent)
     /\ Stored(id).status = "verified"}

C29_ScoreLookupReturnsLatestVerified ==
  lookup.out # Absent =>
    LET matching == Matching(lookup.agent)
        answer == lookup.out[1]
    IN  /\ matching = {} => answer.code = 404
        /\ matching # {} =>
             /\ answer.code = 200
             /\ answer.body.score >= 60
             /\ \E id \in matching :
                  /\ answer.body.agent = Stored(id).agentName
                  /\ answer.body.score = Stored(id).score
                  /\ answer.body.verifiedAt = Stored(id).completedAt
                  /\ answer.body.attestationTx = Stored(id).attestationTx
                  /\ \A other \in matching :
                       Stored(other).completedAt[1] <= Stored(id).completedAt[1]

\* C30, as claimed: the score of a mapping is an integer from 0 to 100; the
\* same mapping with one failed check passed scores no less; the score is
\* 100 exactly when every check of the mapping passed; and when liveness
\* passed the score is at least 3000 / (the sum of the weights), rounded,
\* which is more than 0.
RoundedQuotient(a, b) == (2 * a + b) \div (2 * b)

AllPassed(checks) == \A i \in DOMAIN checks : checks[i].passed

LivenessPassed(checks) ==
  \E i \in DOMAIN checks : checks[i].name = "liveness" /\ checks[i].passed

NeverLessWhenOneMorePasses ==
  \A i \in DOMAIN sChecks :
    ~sChecks[i].passed =>
      calculateScore(SetCheck(sChecks, sChecks[i].name, TRUE)).score >= sOut[1]

C30_ScoreMonotoneAndExactAtTop ==
  sOut # Absent =>
    /\ sOut[1] \in 0..100
    /\ NeverLessWhenOneMorePasses
    /\ (sOut[1] = 100) <=> AllPassed(sChecks)
    /\ LivenessPassed(sChecks) =>
         /\ sOut[1] >= RoundedQuotient(3000, MaxWeight(sChecks))
         /\ RoundedQuotient(3000, MaxWeight(sChecks)) > 0

\* C30, amended: the score is an integer from 0 to 100; the same mapping
\* with one failed check passed scores no less; the score is 100 when every
\* check passed, and only then when the weights sum to less than 1000; and
\* when liveness passed the score is at least 3000 / (the sum of the
\* weights), rounded, which is more than 0 exactly when the weights sum to
\* at most 6000.
C30_ScoreMonotoneAndBounded ==
  sOut # Absent =>
    /\ sOut[1] \in 0..100
    /\ NeverLessWhenOneMorePasses
    /\ AllPassed(sChecks) => sOut[1] = 100
    /\ (sOut[1] = 100 /\ MaxWeight(sChecks) < 1000) => AllPassed(sChecks)
    /\ LivenessPassed(sChecks) =>
         /\ sOut[1] >= RoundedQuotient(3000, MaxWeight(sChecks))
         /\ (RoundedQuotient(3000, MaxWeight(sChecks)) > 0)
              <=> (MaxWeight(sChecks) <= 6000)

\* 92 capability checks passed and rateLimiting failed: 995 of 1000, scored 100
C30_Witness ==
  /\ sOut = Some(100)
  /\ LivenessPassed(sChecks) /\ ~AllPassed(sChecks)
  /\ MaxWeight(sChecks) = 1000 /\ PassedWeight(sChecks) = 995

====
